---- MODULE Spec2Model ----
(***************************************************************************)
(* Differentially private Gaussian-process predictions (dp4gp.py).         *)
(*                                                                         *)
(* Numbers.  Matrices are sequences of rows.  The lambdas, M, pinv(M),     *)
(* the gradient and epsilon are fixed-point reals counted in units of      *)
(* 1/Scale; cloaking vectors, training targets and noise samples are       *)
(* plain integers.  The gradient search is modelled for one test point     *)
(* (M is 1 x 1), calcM and calc_msense for any shape.  Kernel matrices     *)
(* come from GPy and are inputs of the model.                              *)
(***************************************************************************)
EXTENDS Integers, Sequences, FiniteSets, TLC

VARIABLES
    model,        \* the GPy model object handed to the wrapper
    obj,          \* the DPGP wrapper (None until a constructor returns)
    pc,           \* position inside the running call
    args,         \* arguments of the running call
    cs,           \* cloaking vectors of the running call
    ls,           \* findLambdas_grad: current lambdas
    git,          \* findLambdas_grad: iterations of the for loop done
    conv,         \* findLambdas_grad returned from inside the loop (line 331)
    it,           \* findLambdas_repeat: attempts of this pass done
    count,        \* findLambdas_repeat: count
    bestLogDetM,  \* findLambdas_repeat: bestLogDetM
    bestls,       \* findLambdas_repeat: bestls
    hist,         \* attempts of this findLambdas_repeat call, in order
    dns,          \* outcome of draw_noise_samples, called at line 32
    ret,          \* what draw_prediction_samples returned
    err,          \* exception that left the last operation
    fin,          \* argument of a pure function applied on its own
    fout          \* its result

vars == <<model, obj, pc, args, cs, ls, git, conv, it, count,
          bestLogDetM, bestls, hist, dns, ret, err, fin, fout>>

(* ------------------------------ bounds -------------------------------- *)
MaxTrain == 2      \* training points n
MaxTest == 2       \* test points m of the prior mechanisms
MaxN == 2          \* samples N
MaxAttempts == 2   \* Nattempts
MaxNits == 3       \* Nits
MaxDim == 2        \* side of the matrices handed to calc_msense and calcM
MaxK == 3          \* largest scale factor k

(* ------------------------- program constants -------------------------- *)
Scale == 10000         \* one fixed-point unit is 1/Scale
lrNum == 5             \* lr = 0.05 = lrNum / lrDen
lrDen == 100
ConvDen == 100000      \* convergence threshold 1e-5 = 1 / ConvDen
FeasTol == -100        \* -0.01 in units
MaxCount == 1000       \* count > 1000 raises
EpsLimit == 10000      \* epsilon <= 1 in units

None == <<>>

(* ------------------------------ numpy --------------------------------- *)
\* the array with its elements computed
Eager(s) == s \o <<>>

Abs(x) == IF x < 0 THEN -x ELSE x

Max2(a, b) == IF a >= b THEN a ELSE b

Min2(a, b) == IF a <= b THEN a ELSE b

\* division rounding toward zero
Quot(a, b) == IF a >= 0 THEN a \div b ELSE -((-a) \div b)

RECURSIVE SumSeq(_)
SumSeq(s) == IF s = <<>> THEN 0 ELSE Head(s) + SumSeq(Tail(s))

RECURSIVE MaxSeq(_)
MaxSeq(s) ==
    IF Len(s) = 1 THEN s[1]
    ELSE LET t == MaxSeq(Tail(s)) IN IF s[1] >= t THEN s[1] ELSE t

RECURSIVE MinSeq(_)
MinSeq(s) ==
    IF Len(s) = 1 THEN s[1]
    ELSE LET t == MinSeq(Tail(s)) IN IF s[1] <= t THEN s[1] ELSE t

Rows(A) == Len(A)

Cols(A) == Len(A[1])

Shape(A) == <<Rows(A), Cols(A)>>

Zeros(r, c) == Eager([i \in 1..r |-> Eager([j \in 1..c |-> 0])])

Eye(n) == Eager([i \in 1..n |-> Eager([j \in 1..n |-> IF i = j THEN 1 ELSE 0])])

Ones(r, c) == Eager([i \in 1..r |-> Eager([j \in 1..c |-> 1])])

Transpose(A) == Eager([j \in 1..Cols(A) |-> Eager([i \in 1..Rows(A) |-> A[i][j]])])

MatScale(k, A) == Eager([i \in 1..Rows(A) |-> Eager([j \in 1..Cols(A) |-> k * A[i][j]])])

MatAdd(A, B) == Eager([i \in 1..Rows(A) |-> Eager([j \in 1..Cols(A) |-> A[i][j] + B[i][j]])])

\* np.dot of two 2-d arrays
Dot(A, B) ==
    Eager([i \in 1..Rows(A) |-> Eager([j \in 1..Cols(B) |->
        SumSeq(Eager([k \in 1..Cols(A) |-> A[i][k] * B[k][j]]))])])

\* numpy broadcasting of two 2-d shapes: an axis of length 1 stretches
CanBroadcast(A, B) ==
    /\ (Rows(A) = Rows(B) \/ Rows(A) = 1 \/ Rows(B) = 1)
    /\ (Cols(A) = Cols(B) \/ Cols(A) = 1 \/ Cols(B) = 1)

BroadcastAdd(A, B) ==
    Eager([i \in 1..Max2(Rows(A), Rows(B)) |-> Eager([j \in 1..Max2(Cols(A), Cols(B)) |->
        A[IF Rows(A) = 1 THEN 1 ELSE i][IF Cols(A) = 1 THEN 1 ELSE j]
      + B[IF Rows(B) = 1 THEN 1 ELSE i][IF Cols(B) = 1 THEN 1 ELSE j]])])

\* A.clip(min=0)
ClipMin0(A) ==
    Eager([i \in 1..Rows(A) |-> Eager([j \in 1..Cols(A) |-> IF A[i][j] < 0 THEN 0 ELSE A[i][j]])])

\* np.sum(A, 1)
RowSums(A) == Eager([i \in 1..Rows(A) |-> SumSeq(A[i])])

AbsSeq(s) == Eager([i \in 1..Len(s) |-> Abs(s[i])])

\* np.linalg.det of a 1 x 1 or 2 x 2 matrix
Det(M) ==
    IF Rows(M) = 1 THEN M[1][1] ELSE M[1][1] * M[2][2] - M[1][2] * M[2][1]

\* np.linalg.pinv of a 1 x 1 matrix held in units: 1/x, and 0 for x = 0
Pinv(M) ==
    <<<<IF M[1][1] = 0 THEN 0 ELSE Quot(Scale * Scale, M[1][1])>>>>

Trace(A) == SumSeq(Eager([i \in 1..Rows(A) |-> A[i][i]]))

(* --------------------------- DPGP_prior ------------------------------- *)
\* the infinity norm the docstring says calc_msense replaced
calc_msense_infnorm(A) ==
    MaxSeq(RowSums(Eager([i \in 1..Rows(A) |-> AbsSeq(A[i])])))

calc_msense(A) ==
    LET v1 == MaxSeq(AbsSeq(RowSums(ClipMin0(A))))
        v2 == MaxSeq(AbsSeq(RowSums(ClipMin0(MatScale(-1, A)))))
    IN  MaxSeq(<<v1, v2>>)

(* -------------------------- DPGP_cloaking ----------------------------- *)
\* the loop body of calcM, over zip(ls, cs), from pair i on
RECURSIVE calcM_loop(_, _, _, _)
calcM_loop(M, lvec, cvec, i) ==
    IF i > Min2(Len(lvec), Len(cvec)) THEN M
    ELSE LET ccT == Dot(cvec[i], Transpose(cvec[i]))
         IN  calcM_loop(MatAdd(M, MatScale(lvec[i], ccT)), lvec, cvec, i + 1)

\* M = l*ccT in place of M = M + l*ccT
calcM_overwrite(lvec, cvec) ==
    LET d == Len(cvec[1])
        n == Min2(Len(lvec), Len(cvec))
    IN  MatScale(lvec[n], Dot(cvec[n], Transpose(cvec[n])))

calcM(lvec, cvec) ==
    LET d == Len(cvec[1])
    IN  calcM_loop(Zeros(d, d), lvec, cvec, 1)

dL_dl(lvec, cvec) ==
    LET M == calcM(lvec, cvec)
        Minv == Pinv(M)
    IN  Eager([j \in 1..Len(cvec) |->
            -Trace(Dot(Minv, Dot(cvec[j], Transpose(cvec[j])))) + Scale])

\* line 328 left out
ClipNeg_none(lvec) == lvec

\* ls[ls<0] = 0
ClipNeg(lvec) == Eager([j \in 1..Len(lvec) |-> IF lvec[j] < 0 THEN 0 ELSE lvec[j]])

\* one pass of the for loop of findLambdas_grad, up to the convergence test
GradStep(lvec, cvec) ==
    LET g == dL_dl(lvec, cvec)
        delta_ls == Eager([j \in 1..Len(lvec) |-> Quot(-g[j] * lrNum, lrDen)])
    IN  ClipNeg(Eager([j \in 1..Len(lvec) |-> lvec[j] + delta_ls[j]]))

\* np.max(np.abs(lsbefore-ls)) < 1e-5
Converged(lsbefore, lvec) ==
    LET d == MaxSeq(Eager([j \in 1..Len(lvec) |-> Abs(lsbefore[j] - lvec[j])]))
    IN  d < Scale /\ d * ConvDen < Scale

calcDelta(lvec, cvec) ==
    LET M == calcM(lvec, cvec)
        Minv == Pinv(M)
    IN  MaxSeq(Eager([i \in 1..Min2(Len(lvec), Len(cvec)) |->
                  Dot(Dot(Transpose(cvec[i]), Minv), cvec[i])[1][1]]))

\* np.log(detM), or the value -1000 of line 370, or np.Inf of line 355.
\* The logarithm is kept symbolic: [k |-> "log", d |-> x] is log(x/Scale).
LogInf == [k |-> "inf", d |-> 0]

LogSentinel == [k |-> "sentinel", d |-> 0]

LogOf(x) == [k |-> "log", d |-> x]

\* a < b on these values.  log is increasing, and log(x) > -744 > -1000
\* for every positive double x, so the sentinel is below every logarithm.
LogLessEq(a, b) ==
    CASE b.k = "inf" -> TRUE
      [] a.k = "inf" -> FALSE
      [] a.k = "sentinel" -> TRUE
      [] b.k = "sentinel" -> FALSE
      [] OTHER -> a.d <= b.d

LogLess(a, b) ==
    CASE a.k = "inf" -> FALSE
      [] b.k = "inf" -> TRUE
      [] b.k = "sentinel" -> FALSE
      [] a.k = "sentinel" -> TRUE
      [] OTHER -> a.d < b.d

\* np.min(ls) < 0.01, the sign of the tolerance lost
Infeasible_sign(lvec) == MinSeq(lvec) < -FeasTol

\* np.min(ls) < -0.01
Infeasible(lvec) == MinSeq(lvec) < FeasTol

\* lines 367-372
LogDetOf(lvec, cvec) ==
    LET M == calcM(lvec, cvec)
        detM == Det(M)
    IN  IF detM <= 0 THEN LogSentinel ELSE LogOf(detM)

(* ------------------------------ inputs -------------------------------- *)
Kinds == {"normal_prior", "pseudo_prior", "cloaking", "inducing_cloaking"}

CloakingFamily == {"cloaking", "inducing_cloaking"}

ModelTypes == {"GPRegression", "SparseGPRegression"}

EpsVals == {Scale \div 2, Scale, Scale + 1}

\* values np.random.rand() takes here: 0 and 0.625, in units
RandVals == {0, (Scale * 5) \div 8}

\* entries of the cloaking matrix C
CVals == {0, 1}

\* entries of one multivariate normal sample
NoiseVals == {-1, 1}

\* model.Y: n x 1
YCol(n) == Eager([i \in 1..n |-> <<i>>])

\* what GPy's kernel gives for K_NN + sigma^2 I, inverted
KinvOf(n) == Eager([i \in 1..n |-> Eager([j \in 1..n |-> IF i = j THEN 2 ELSE -1])])

Models ==
    {[type |-> t, inference_method |-> "default", Y |-> YCol(n), singular |-> s] :
        t \in ModelTypes, n \in 1..MaxTrain, s \in BOOLEAN}

NTrain == Len(model.Y)

\* model.predict_noiseless(Xtest)[0]: m x 1
PredictNoiseless(mdl, m) == Eager([i \in 1..m |-> <<SumSeq(RowSums(mdl.Y))>>])

\* the covariance mat * (mult * sens * sqrt(2 ln(2/delta)) / epsilon)^2
NoiseCov(mat, mult) == [mat |-> mat, mult |-> mult]

\* one draw of np.random.multivariate_normal(zeros(m), cov): a coordinate
\* of zero variance is drawn as 0, any other as a nonzero value
SampleRows(cov) ==
    {r \in [1..Len(cov.mat) -> NoiseVals \cup {0}] :
        \A j \in 1..Len(cov.mat) :
            (r[j] = 0) <=> (cov.mult = 0 \/ cov.mat[j][j] = 0)}

\* N draws of np.random.multivariate_normal(zeros(m), cov, N): N x m
Samples(cov, N) == [1..N -> SampleRows(cov)]

(* --------------------------- constructors ----------------------------- *)
\* DPGP.__init__
DPGP_init(kind, mdl, sens, epsilon, delta) ==
    [kind |-> kind, sens |-> sens, epsilon |-> epsilon, delta |-> delta,
     invCov |-> None]

\* each constructor gives the object (None when it raises), the model as
\* it leaves it, and the exception
DPGP_normal_prior_init(mdl, sens, epsilon, delta) ==
    LET o == DPGP_init("normal_prior", mdl, sens, epsilon, delta)
    IN  IF mdl.singular
        THEN [obj |-> None, model |-> mdl, err |-> "LinAlgError"]
        ELSE [obj |-> [o EXCEPT !.invCov = KinvOf(Len(mdl.Y))],
              model |-> mdl, err |-> "none"]

DPGP_pseudo_prior_init(mdl, sens, epsilon, delta) ==
    [obj |-> DPGP_init("pseudo_prior", mdl, sens, epsilon, delta),
     model |-> mdl, err |-> "none"]

DPGP_cloaking_init(mdl, sens, epsilon, delta) ==
    LET o == DPGP_init("cloaking", mdl, sens, epsilon, delta)
    IN  IF epsilon <= EpsLimit
        THEN [obj |-> o, model |-> mdl, err |-> "none"]
        ELSE [obj |-> None, model |-> mdl, err |-> "AssertionError"]

\* another inference method is written into the model
SetFITC_other(mdl) == [mdl EXCEPT !.inference_method = "VarDTC"]

\* self.model.inference_method = FITC()
SetFITC(mdl) == [mdl EXCEPT !.inference_method = "FITC"]

\* super(DPGP_cloaking, self).__init__ is DPGP.__init__
DPGP_inducing_cloaking_init(mdl, sens, epsilon, delta) ==
    LET o == DPGP_init("inducing_cloaking", mdl, sens, epsilon, delta)
        m2 == SetFITC(mdl)
    IN  IF m2.type = "SparseGPRegression"
        THEN [obj |-> o, model |-> m2, err |-> "none"]
        ELSE [obj |-> None, model |-> m2, err |-> "AssertionError"]

New(kind, mdl, sens, epsilon, delta) ==
    CASE kind = "normal_prior" -> DPGP_normal_prior_init(mdl, sens, epsilon, delta)
      [] kind = "pseudo_prior" -> DPGP_pseudo_prior_init(mdl, sens, epsilon, delta)
      [] kind = "cloaking" -> DPGP_cloaking_init(mdl, sens, epsilon, delta)
      [] kind = "inducing_cloaking" ->
            DPGP_inducing_cloaking_init(mdl, sens, epsilon, delta)

(* ------------------------------ DPGP ---------------------------------- *)
Ok(v) == [err |-> "none", val |-> v]

Raise(e) == [err |-> e, val |-> None]

\* mean + noise in place of mean + noise.T
draw_prediction_samples_noT(GPymean, d) ==
    IF d.err # "none" THEN Raise(d.err)
    ELSE LET mean == d.val[1]
             noise == d.val[2]
             cov == d.val[3]
         IN  IF CanBroadcast(mean, noise)
             THEN Ok(<<BroadcastAdd(mean, noise), mean, cov>>)
             ELSE Raise("ValueError")

\* GPy's noiseless prediction handed back when the mechanism raised
draw_prediction_samples_fallback(GPymean, d) ==
    IF d.err # "none" THEN Ok(<<GPymean, GPymean, NoiseCov(Zeros(Len(GPymean), Len(GPymean)), 0)>>)
    ELSE LET mean == d.val[1]
             noise == d.val[2]
             cov == d.val[3]
         IN  Ok(<<BroadcastAdd(mean, Transpose(noise)), mean, cov>>)

\* d is the outcome of self.draw_noise_samples: an exception leaves
\* draw_prediction_samples at line 32
draw_prediction_samples(GPymean, d) ==
    IF d.err # "none" THEN Raise(d.err)
    ELSE LET mean == d.val[1]
             noise == d.val[2]
             cov == d.val[3]
         IN  IF CanBroadcast(mean, Transpose(noise))
             THEN Ok(<<BroadcastAdd(mean, Transpose(noise)), mean, cov>>)
             ELSE Raise("ValueError")

\* lines 31-36 around the outcome d of line 32
Outcome(mdl, m, d) == draw_prediction_samples(PredictNoiseless(mdl, m), d)

(* --------------------------- DPGP_prior ------------------------------- *)
\* G is the draw of line 178; noise in units of sens*sqrt(2 ln(2/delta))/epsilon
draw_cov_noise_samples(test_cov, msense, G) ==
    <<MatScale(msense, G), NoiseCov(test_cov, msense)>>

\* DPGP_normal_prior.draw_noise_samples; K_Nstar (n x m) and test_cov from GPy
DPGP_normal_prior_draw_noise_samples(o, mdl, m, G) ==
    LET test_cov == Eye(m)
        msense == calc_msense(o.invCov)
        K_Nstar == Ones(Len(mdl.Y), m)
        mu == Dot(Dot(Transpose(K_Nstar), KinvOf(Len(mdl.Y))), mdl.Y)
        sc == draw_cov_noise_samples(test_cov, msense, G)
    IN  Ok(<<mu, sc[1], sc[2]>>)

\* DPGP_pseudo_prior.draw_noise_samples after line 225; kout is the outcome
\* of the assertion of line 257
DPGP_pseudo_prior_draw_noise_samples(kout, mdl, m, G) ==
    IF mdl.type # "SparseGPRegression" THEN Raise("AttributeError")
    ELSE IF mdl.singular THEN Raise("LinAlgError")
    ELSE IF kout # "ok" THEN Raise(kout)
    ELSE LET test_cov == Eye(m)
             K_star == Ones(m, Len(mdl.Y))
             K_pseudoInv == KinvOf(Len(mdl.Y))
             pseudo_mu == Dot(Dot(K_star, K_pseudoInv), mdl.Y)
             pseudo_msense == calc_msense(K_pseudoInv)
             sc == draw_cov_noise_samples(test_cov, pseudo_msense, G)
         IN  Ok(<<pseudo_mu, sc[1], sc[2]>>)

(* ------------------------------ state --------------------------------- *)
NoArgs == [m |-> 0, N |-> 0, Nattempts |-> 0, Nits |-> 0]

DefaultAttempts == 7

DefaultNits == 1000

Idle ==
    /\ pc = "idle"
    /\ args = NoArgs
    /\ cs = None
    /\ ls = None
    /\ git = 0
    /\ conv = FALSE
    /\ it = 0
    /\ count = 0
    /\ bestLogDetM = LogInf
    /\ bestls = None
    /\ hist = <<>>
    /\ dns = Ok(None)
    /\ ret = None
    /\ err = "none"

Init ==
    /\ model \in Models
    /\ obj = None
    /\ Idle
    /\ fin = None
    /\ fout = None

searchVars == <<cs, ls, git, conv, it, count, bestLogDetM, bestls, hist>>

fnVars == <<fin, fout>>

\* draw_prediction_samples leaves with r, draw_noise_samples having left
\* with d
Leave(d, r) ==
    /\ dns' = d
    /\ ret' = r.val
    /\ err' = r.err

\* lines 31-36 of draw_prediction_samples around the outcome d of line 32
Returns(mdl, m, d) == Leave(d, Outcome(mdl, m, d))

\* a constructor call
Construct ==
    /\ pc = "idle"
    /\ obj = None
    /\ \E kind \in Kinds, epsilon \in EpsVals :
         LET r == New(kind, model, 2, epsilon, 100)
         IN  /\ obj' = r.obj
             /\ model' = r.model
             /\ err' = r.err
    /\ UNCHANGED <<pc, args, searchVars, dns, ret, fnVars>>

\* dpgp.draw_prediction_samples(Xtest, N) on a normal prior
CallNormalPrior ==
    /\ pc = "idle"
    /\ obj # None
    /\ obj.kind = "normal_prior"
    /\ \E m \in 1..MaxTest, N \in 1..MaxN :
        \E G \in Samples(NoiseCov(Eye(m), 1), N) :
         /\ args' = [m |-> m, N |-> N, Nattempts |-> DefaultAttempts,
                     Nits |-> DefaultNits]
         /\ Returns(model, m,
                    DPGP_normal_prior_draw_noise_samples(obj, model, m, G))
    /\ pc' = "done"
    /\ UNCHANGED <<model, obj, searchVars, fnVars>>

\* the same on a pseudo prior; line 225 runs before anything can raise
CallPseudoPrior ==
    /\ pc = "idle"
    /\ obj # None
    /\ obj.kind = "pseudo_prior"
    /\ \E m \in 1..MaxTest, N \in 1..MaxN,
          o \in {"ok", "AssertionError"} :
        \E G \in Samples(NoiseCov(Eye(m), 1), N) :
         /\ model' = SetFITC(model)
         /\ args' = [m |-> m, N |-> N, Nattempts |-> DefaultAttempts,
                     Nits |-> DefaultNits]
         /\ Returns(SetFITC(model), m,
                    DPGP_pseudo_prior_draw_noise_samples(o, SetFITC(model),
                                                         m, G))
    /\ pc' = "done"
    /\ UNCHANGED <<obj, searchVars, fnVars>>

(* -------------------------- DPGP_cloaking ----------------------------- *)
StartNum == 8          \* 0.1 * rand * 0.8 = rand * StartNum / StartDen
StartDen == 100

\* cs.append(C[:,i][:,None]) for every column i of C
ColumnsOf(C) == Eager([i \in 1..Cols(C) |-> Eager([r \in 1..Rows(C) |-> <<C[r][i]>>])])

\* the matrix C whose columns are cvec
MatrixOf(cvec) == Eager([r \in 1..Len(cvec[1]) |-> Eager([i \in 1..Len(cvec) |-> cvec[i][r][1]])])

\* lines 365-375 for the vector lvec one attempt returned
AttemptResult(best, bestl, lvec, cvec) ==
    IF Infeasible(lvec)
    THEN [bestLogDetM |-> best, bestls |-> bestl, logDetM |-> LogInf,
          skipped |-> TRUE, recorded |-> FALSE]
    ELSE LET logDetM == LogDetOf(lvec, cvec)
         IN  IF LogLess(logDetM, best)
             THEN [bestLogDetM |-> logDetM, bestls |-> lvec,
                   logDetM |-> logDetM, skipped |-> FALSE, recorded |-> TRUE]
             ELSE [bestLogDetM |-> best, bestls |-> bestl,
                   logDetM |-> logDetM, skipped |-> FALSE, recorded |-> FALSE]

\* lines 442-446: the covariance M and its multiplier Delta
CloakingCov(lvec, cvec) == NoiseCov(calcM(lvec, cvec), calcDelta(lvec, cvec))

\* line 454: mu = np.dot(C, self.model.Y)
CloakingMean(cvec, mdl) == Dot(MatrixOf(cvec), mdl.Y)

\* line 455, samps being the draw of line 450
CloakingNoise(mu, samps, sampcov) == Ok(<<mu, samps, sampcov>>)

\* the pairs <<Nattempts, Nits>> a call is given; Nits is read by an
\* attempt only, so a call of no attempts is given Nits = 0
SearchArgs ==
    {a \in (0..MaxAttempts) \X (0..MaxNits) : a[1] = 0 => a[2] = 0}

\* draw_prediction_samples(Xtest, N, Nattempts, Nits) on a cloaking
\* mechanism, up to the first pass of findLambdas_repeat: lines 31-32,
\* 435-441 and 355-359.  N is not read before line 450 and is drawn there.
CallCloaking ==
    /\ pc = "idle"
    /\ obj # None
    /\ obj.kind \in CloakingFamily
    /\ \E a \in SearchArgs :
         /\ args' = [m |-> 1, N |-> 0, Nattempts |-> a[1], Nits |-> a[2]]
         /\ IF model.singular
            THEN /\ Returns(model, 1, Raise("LinAlgError"))
                 /\ cs' = None
                 /\ pc' = "done"
            ELSE /\ \E C \in [1..1 -> [1..NTrain -> CVals]] : cs' = ColumnsOf(C)
                 /\ dns' = Ok(None)
                 /\ ret' = None
                 /\ err' = "none"
                 /\ pc' = "for"
    /\ bestLogDetM' = LogInf
    /\ bestls' = None
    /\ count' = 0
    /\ it' = 0
    /\ ls' = None
    /\ git' = 0
    /\ conv' = FALSE
    /\ hist' = <<>>
    /\ UNCHANGED <<model, obj, fnVars>>

\* line 364 calls findLambdas_grad: line 322
AttemptBegin ==
    /\ pc = "for"
    /\ it < args.Nattempts
    /\ \E rand \in [1..Len(cs) -> RandVals] :
         ls' = Eager([j \in 1..Len(cs) |-> Quot(rand[j] * StartNum, StartDen)])
    /\ git' = 0
    /\ pc' = "grad"
    /\ UNCHANGED <<model, obj, args, cs, conv, it, count,
                   bestLogDetM, bestls, hist, dns, ret, err, fnVars>>

\* lines 329-331: new is ls after lines 326-328
StepTo(new) ==
    /\ ls' = new
    /\ IF Converged(ls, new)
       THEN pc' = "eval" /\ conv' = TRUE /\ git' = git
       ELSE pc' = "grad" /\ conv' = conv /\ git' = git + 1

\* one iteration of the loop of findLambdas_grad, lines 325-331
GradIteration ==
    /\ pc = "grad"
    /\ git < args.Nits
    /\ StepTo(GradStep(ls, cs))
    /\ UNCHANGED <<model, obj, args, cs, it, count,
                   bestLogDetM, bestls, hist, dns, ret, err, fnVars>>

\* the loop ran out: lines 333-334
GradExhausted ==
    /\ pc = "grad"
    /\ git >= args.Nits
    /\ pc' = "eval"
    /\ conv' = FALSE
    /\ UNCHANGED <<model, obj, args, cs, ls, git, it, count,
                   bestLogDetM, bestls, hist, dns, ret, err, fnVars>>

\* the assignments of lines 374-375, r being what lines 365-373 decided
Record(r) ==
    /\ bestLogDetM' = r.bestLogDetM
    /\ bestls' = r.bestls
    /\ hist' = Append(hist, [ls |-> ls, logDetM |-> r.logDetM,
                             conv |-> conv, skipped |-> r.skipped,
                             recorded |-> r.recorded])

\* lines 365-375 on the vector the attempt returned
AttemptEnd ==
    /\ pc = "eval"
    /\ Record(AttemptResult(bestLogDetM, bestls, ls, cs))
    /\ it' = it + 1
    /\ pc' = "for"
    /\ UNCHANGED <<model, obj, args, cs, ls, git, conv, count,
                   dns, ret, err, fnVars>>

\* the budget is spent by the first pass
BudgetSpent_first(n) == n >= 1

\* line 377: count > 1000
BudgetSpent(n) == n > MaxCount

\* the for loop is over: lines 376-378, then the test of line 358, which
\* begins the next pass or leaves the while loop
PassEnd ==
    /\ pc = "for"
    /\ it >= args.Nattempts
    /\ count' = count + 1
    /\ IF BudgetSpent(count + 1)
       THEN /\ Returns(model, args.m, Raise("ValueError"))
            /\ pc' = "done"
            /\ it' = it
       ELSE /\ IF bestls = None
               THEN pc' = "for" /\ it' = 0
               ELSE pc' = "found" /\ it' = it
            /\ UNCHANGED <<dns, ret, err>>
    /\ UNCHANGED <<model, obj, args, cs, ls, git, conv,
                   bestLogDetM, bestls, hist, fnVars>>

\* lines 450-455 and 33-36, given the mean and the covariance
DrawWith(mu, sampcov) ==
    \E N \in 1..MaxN :
        \E samps \in Samples(sampcov, N) :
            /\ args' = [args EXCEPT !.N = N]
            /\ Returns(model, args.m, CloakingNoise(mu, samps, sampcov))

\* findLambdas_repeat returns bestls (line 381); draw_noise_samples runs
\* lines 442-455 and draw_prediction_samples line 36.  The locals of the
\* search are gone.
SearchReturn ==
    /\ pc = "found"
    /\ DrawWith(CloakingMean(cs, model), CloakingCov(bestls, cs))
    /\ pc' = "done"
    /\ cs' = None
    /\ ls' = None
    /\ git' = 0
    /\ conv' = FALSE
    /\ it' = 0
    /\ count' = 0
    /\ bestLogDetM' = LogInf
    /\ bestls' = None
    /\ hist' = <<>>
    /\ UNCHANGED <<model, obj, fnVars>>

\* the caller has the tuple or the exception, line 67
CallerTakes ==
    /\ pc = "done"
    /\ pc' = "idle"
    /\ args' = NoArgs
    /\ cs' = None
    /\ ls' = None
    /\ git' = 0
    /\ conv' = FALSE
    /\ it' = 0
    /\ count' = 0
    /\ bestLogDetM' = LogInf
    /\ bestls' = None
    /\ hist' = <<>>
    /\ dns' = Ok(None)
    /\ ret' = None
    /\ err' = "none"
    /\ UNCHANGED <<model, obj, fnVars>>

Next ==
    \/ Construct
    \/ CallNormalPrior
    \/ CallPseudoPrior
    \/ CallCloaking
    \/ AttemptBegin
    \/ GradIteration
    \/ GradExhausted
    \/ AttemptEnd
    \/ PassEnd
    \/ SearchReturn
    \/ CallerTakes

Spec == Init /\ [][Next]_vars

(* ------------------------ the pure functions -------------------------- *)
\* entries of the matrices and vectors, and lambdas, the functions are tried on
EntryVals == {-1, 0, 1}

LVals == {0, 2}

SquareMats ==
    UNION {[1..d -> [1..d -> EntryVals]] : d \in 1..MaxDim}

InitMsense ==
    /\ model \in {mdl \in Models : Len(mdl.Y) = 1 /\ ~mdl.singular
                                   /\ mdl.type = "GPRegression"}
    /\ obj = None
    /\ Idle
    /\ fin \in {[A |-> A, k |-> k] : A \in SquareMats, k \in 0..MaxK}
    /\ fout = None

\* calc_msense(A) and calc_msense(k*A)
ApplyMsense ==
    /\ fout = None
    /\ fout' = [v |-> calc_msense(fin.A), vk |-> calc_msense(MatScale(fin.k, fin.A))]
    /\ UNCHANGED <<model, obj, pc, args, searchVars, dns, ret, err, fin>>

NextMsense == ApplyMsense

SpecMsense == InitMsense /\ [][NextMsense]_vars

\* lists of n column vectors of length d
ColumnLists(n, d) == [1..n -> [1..d -> [1..1 -> EntryVals]]]

InitCalcM ==
    /\ model \in {mdl \in Models : Len(mdl.Y) = 1 /\ ~mdl.singular
                                   /\ mdl.type = "GPRegression"}
    /\ obj = None
    /\ Idle
    /\ \E n \in 1..MaxTrain, d \in 1..MaxDim :
         \E l \in [1..n -> LVals], c \in ColumnLists(n, d) :
            fin = [ls |-> l, cs |-> c]
    /\ fout = None

\* calcM(ls, cs)
ApplyCalcM ==
    /\ fout = None
    /\ fout' = calcM(fin.ls, fin.cs)
    /\ UNCHANGED <<model, obj, pc, args, searchVars, dns, ret, err, fin>>

NextCalcM == ApplyCalcM

SpecCalcM == InitCalcM /\ [][NextCalcM]_vars

(* ------------------------------ claims -------------------------------- *)
\* outer passes of the running findLambdas_repeat call begun so far
PassesStarted == IF pc \in {"for", "grad", "eval"} THEN count + 1 ELSE count

\* C1: findLambdas_repeat never starts more than 1000 outer passes: once
\* 1000 passes are over without a candidate it raises.
C1_AtMost1000Passes == PassesStarted <= 1000

\* findLambdas_repeat has left its while loop and returns bestls
SearchReturned == pc = "found"

\* an integer in the order of the log-determinants
LogKey(v) ==
    CASE v.k = "inf" -> 2000000000
      [] v.k = "sentinel" -> 0
      [] OTHER -> v.d

Candidates == {i \in 1..Len(hist) : ~hist[i].skipped}

\* the earliest of the candidates with the smallest log-determinant
FirstSmallest ==
    CHOOSE i \in Candidates :
        /\ \A j \in Candidates : LogKey(hist[i].logDetM) <= LogKey(hist[j].logDetM)
        /\ \A j \in Candidates : j < i => LogKey(hist[j].logDetM) > LogKey(hist[i].logDetM)

\* C2: the vector findLambdas_repeat returns is that of the candidate
\* attempt with the smallest log-determinant, the earliest one on a tie.
C2_ReturnsFirstSmallest ==
    SearchReturned =>
        /\ Candidates # {}
        /\ bestls = hist[FirstSmallest].ls
        /\ bestLogDetM = hist[FirstSmallest].logDetM

\* a search returned in which two candidates with different vectors tie
\* for the smallest log-determinant
C2_Witness ==
    /\ SearchReturned
    /\ \E i, j \in Candidates :
         /\ i < j
         /\ hist[i].ls # hist[j].ls
         /\ hist[i].logDetM = hist[j].logDetM
         /\ hist[i].logDetM = bestLogDetM

\* C3 as claimed: only Converged attempts are recorded as best.
C3_OnlyConvergedRecorded ==
    \A i \in 1..Len(hist) : hist[i].recorded => hist[i].conv

\* C3: the attempts recorded as best are feasible (min(l) >= -0.01), and
\* every feasible attempt, Converged or MaxIterationsReached, is a
\* candidate: the best log-determinant is no larger than its own.
C3_FeasibleAreCandidates ==
    \A i \in 1..Len(hist) :
        /\ hist[i].recorded => MinSeq(hist[i].ls) >= FeasTol
        /\ MinSeq(hist[i].ls) >= FeasTol =>
              /\ ~hist[i].skipped
              /\ LogKey(bestLogDetM) <= LogKey(hist[i].logDetM)

\* a search returned the vector of an attempt that ran out of iterations
C3_Witness ==
    /\ SearchReturned
    /\ Candidates # {}
    /\ ~hist[FirstSmallest].conv
    /\ hist[FirstSmallest].recorded
    /\ args.Nits > 0

\* C4: no cloaking-family mechanism exists with epsilon > 1.
C4_EpsilonAboveOneRejected ==
    (obj # None /\ obj.kind \in CloakingFamily) => obj.epsilon <= 10000

\* C5: an attempt with det(M) <= 0 is returned only if no candidate of the
\* search had a positive determinant.
C5_DegenerateRankedLast ==
    (SearchReturned /\ bestLogDetM.k = "sentinel") =>
        \A i \in Candidates : hist[i].logDetM.k = "sentinel"

\* C6: when draw_noise_samples raises, draw_prediction_samples raises the
\* same exception and returns nothing; a tuple is returned only when
\* draw_noise_samples returned its mean, samples and covariance.
C6_FailClosed ==
    /\ dns.err # "none" => (ret = None /\ err = dns.err)
    /\ ret # None => (dns.err = "none" /\ dns.val # None)

\* a call in which the lambda search ran out of passes, draw_noise_samples
\* raised and nothing was returned
C6_Witness ==
    /\ pc = "done"
    /\ obj # None
    /\ dns.err = "ValueError"
    /\ ret = None
    /\ err = dns.err

C8_PredictionsNbyM ==
    ret # None =>
        /\ Shape(ret[1]) = <<args.N, args.m>>
        /\ Shape(ret[2]) = <<args.m, 1>>
        /\ Shape(ret[3].mat) = <<args.m, args.m>>

\* C8: the noisy predictions are m x N, the mean m x 1 and the covariance
\* m x m; column s of the predictions is the mean plus noise sample s.
C8_PredictionsMbyN ==
    ret # None =>
        /\ Shape(ret[1]) = <<args.m, args.N>>
        /\ Shape(ret[2]) = <<args.m, 1>>
        /\ Shape(ret[3].mat) = <<args.m, args.m>>
        /\ \A s \in 1..args.N : \A j \in 1..args.m :
              ret[1][j][s] = ret[2][j][1] + dns.val[2][s][j]

\* predictions returned for a number of samples other than the number of
\* test points, with two samples that differ
C8_Witness ==
    /\ ret # None
    /\ args.N # args.m
    /\ \E s, t \in 1..args.N : dns.val[2][s] # dns.val[2][t]

\* sums of the positive and of the negated negative entries of row r
PosSum(r) == SumSeq(Eager([j \in 1..Len(r) |-> IF r[j] > 0 THEN r[j] ELSE 0]))

NegSum(r) == SumSeq(Eager([j \in 1..Len(r) |-> IF r[j] < 0 THEN -r[j] ELSE 0]))

\* C9: calc_msense(A) is the largest PosSum or NegSum of a row of A, is
\* >= 0, and calc_msense(k*A) = k*calc_msense(A) for k >= 0.
C9_MsenseScaleLinear ==
    fout # None =>
        /\ \A i \in 1..Rows(fin.A) :
              PosSum(fin.A[i]) <= fout.v /\ NegSum(fin.A[i]) <= fout.v
        /\ \E i \in 1..Rows(fin.A) :
              PosSum(fin.A[i]) = fout.v \/ NegSum(fin.A[i]) = fout.v
        /\ fout.v >= 0
        /\ fout.vk = fin.k * fout.v

\* calc_msense applied to a 1 x 1 matrix with a nonzero entry and k > 1
C9_Witness ==
    /\ fout # None
    /\ Rows(fin.A) = 1
    /\ fin.A[1][1] # 0
    /\ fin.k > 1
    /\ fout.v > 0

\* x^T M x for the vector x
QuadForm(M, x) ==
    SumSeq(Eager([a \in 1..Len(M) |->
        SumSeq(Eager([b \in 1..Len(M) |-> x[a] * M[a][b] * x[b]]))]))

\* C10: calcM(ls, cs) is symmetric, equals the sum of ls[i]*cs[i]*cs[i]^T
\* and is positive semi-definite when every ls[i] >= 0.
C10_CalcMSymmetricPSD ==
    fout # None =>
        LET d == Len(fin.cs[1])
        IN  /\ Shape(fout) = <<d, d>>
            /\ \A a, b \in 1..d :
                  /\ fout[a][b] = fout[b][a]
                  /\ fout[a][b] = SumSeq(Eager([i \in 1..Len(fin.cs) |->
                                     fin.ls[i] * fin.cs[i][a][1] * fin.cs[i][b][1]]))
            /\ \A x \in [1..d -> EntryVals] : QuadForm(fout, x) >= 0

\* calcM applied to two vectors of length two with positive lambdas and a
\* nonzero off-diagonal entry
C10_Witness ==
    /\ fout # None
    /\ Len(fin.cs) >= 2
    /\ Len(fin.cs[1]) >= 2
    /\ \A i \in 1..Len(fin.ls) : fin.ls[i] > 0
    /\ fout[1][2] # 0

\* perturbing training label i by sens moves the mean by sens * c
Moves(c) == \E r \in 1..Len(c) : c[r][1] # 0

\* the variance of the noise of covariance cov along the direction c is
\* positive.  When it is zero the output distributions before and after
\* the move have disjoint supports and the density ratio is unbounded on
\* every output.
NoisedAlong(cov, c) ==
    /\ cov.mult # 0
    /\ Dot(Dot(Transpose(c), cov.mat), c)[1][1] # 0

\* C11: the covariance a cloaking mechanism releases gives (epsilon,
\* delta)-differential privacy for a move of any one training label by
\* sens; in particular every label that moves the mean meets noise of
\* positive variance along its move.
C11_NoiseCoversEveryLabel ==
    [][(pc = "found" /\ pc' = "done" /\ dns'.err = "none") =>
          \A i \in 1..Len(cs) :
              Moves(cs[i]) => NoisedAlong(dns'.val[3], cs[i])]_vars

\* ls + delta_ls of line 327, before line 328 clips it
Unclipped(lvec, cvec) ==
    Eager([j \in 1..Len(lvec) |->
        lvec[j] + Quot(-dL_dl(lvec, cvec)[j] * lrNum, lrDen)])

\* C12: the start of findLambdas_grad and the vector after every descent
\* step have all entries >= 0, so every vector it returns, converged or
\* not, has min(l) >= 0 and is never skipped by the test of line 365.
C12_LambdasNonNegative ==
    /\ ls # None => \A j \in 1..Len(ls) : ls[j] >= 0
    /\ \A i \in 1..Len(hist) :
          /\ MinSeq(hist[i].ls) >= 0
          /\ MinSeq(hist[i].ls) >= FeasTol
          /\ ~hist[i].skipped

\* a descent step has just clipped a negative entry to zero and the
\* vector is returned
C12_Witness ==
    /\ pc = "eval"
    /\ conv
    /\ args.Nits > 0
    /\ \E j \in 1..Len(ls) : ls[j] = 0 /\ Unclipped(ls, cs)[j] < 0

\* findLambdas_repeat has raised the ValueError of line 378
SearchRaised ==
    /\ pc = "done"
    /\ obj # None
    /\ obj.kind \in CloakingFamily
    /\ dns.err = "ValueError"

====
